---- MODULE Spec2Model ----
(***************************************************************************)
(* A model of lale's grammar engine (lale/grammar.py) and of its batched   *)
(* metric scorers (lale/lib/rasl/_metrics.py).                             *)
(*                                                                         *)
(* Operators are values tagged by their shape:                             *)
(*   Leaf        an IndividualOp                                           *)
(*   NonTerminal a reference to a rule, by name                            *)
(*   Choice      an OperatorChoice over a list of steps                    *)
(*   Pipeline    a BasePipeline: a list of steps and edges between them    *)
(* None is Python's None, KeyError a lookup of a missing rule.             *)
(***************************************************************************)
EXTENDS Integers, Sequences, FiniteSets, TLC

VARIABLES
    _variables,   \* Grammar._variables: rule name -> operator
    assigned,     \* the rule names bound so far by __setattr__
    last,         \* the last call of unfold/sample: its input and its outcome
    stack,        \* the pending recursive calls of a running _unfold/_sample
    run,          \* the running call: its kind, its rule table, its state
    batches,      \* the batches handed to a scorer, in order
    form,         \* the dtypes of y_true and y_pred and how y_pred is passed
    pool,         \* the accumulators made of the batches and not yet combined
    pulled,       \* how many of the batches were taken and lifted so far
    mstate,       \* the state of the batched scoring
    _scorer_cache, \* the module's scorer cache: name -> None or an instance
    made,         \* how many scorers of each class were constructed
    log           \* the calls of get_scorer so far

gvars == <<_variables, assigned, last>>
rvars == <<stack, run>>
mvars == <<batches, form, pool, pulled, mstate>>
cvars == <<_scorer_cache, made, log>>
vars == <<_variables, assigned, last, stack, run, batches, form, pool, pulled, mstate,
          _scorer_cache, made, log>>

(***************************************************************************)
(* The operator model.                                                     *)
(***************************************************************************)
None == [shape |-> "None"]
KeyError == [shape |-> "KeyError"]
AssertionError == [shape |-> "AssertionError"]
ValueError == [shape |-> "ValueError"]
TypeError == [shape |-> "TypeError"]

Leaf(x) == [shape |-> "Leaf", name |-> x]
NonTerminal(x) == [shape |-> "NonTerminal", name |-> x]
Choice(ss) == [shape |-> "Choice", steps |-> ss]
Pipeline(ss, es) == [shape |-> "Pipeline", steps |-> ss, edges |-> es]

\* a >> b: two steps and the edge from the first to the second
Seq2(a, b) == Pipeline(<<a, b>>, {<<1, 2>>})

NoOp == Leaf("NoOp")

\* make_pipeline(op): a pipeline of the single step op
make_pipeline(op) == Pipeline(<<op>>, {})

\* make_choice(*steps)
make_choice(ss) == Choice(ss)

\* get_pipeline_of_applicable_type(new_steps, new_edges, True)
get_pipeline_of_applicable_type(ss, es) == Pipeline(ss, es)

IsError(r) ==
    /\ "shape" \in DOMAIN r
    /\ r.shape \in {"KeyError", "AssertionError", "ValueError", "TypeError"}

\* Python's filter of a list: the elements that are not None, in order
RECURSIVE NotNone(_)
NotNone(ss) ==
    IF ss = <<>> THEN <<>>
    ELSE IF Head(ss) = None THEN NotNone(Tail(ss))
    ELSE <<Head(ss)>> \o NotNone(Tail(ss))

(***************************************************************************)
(* Grammar.__getattr__, __setattr__ and hasattr on rule names (names that  *)
(* do not start with an underscore). Operators are compared by structure,  *)
(* so the clone that __getattr__ returns is the stored value.              *)
(***************************************************************************)
getattr(T, name) ==
    LET T1 == IF name \in DOMAIN T THEN T
              ELSE [k \in DOMAIN T \cup {name} |->
                       IF k = name THEN NonTerminal(name) ELSE T[k]]
    IN [tab |-> T1, val |-> T1[name]]

setattr(T, name, value) ==
    [k \in DOMAIN T \cup {name} |-> IF k = name THEN value ELSE T[k]]

\* hasattr(self, name): true unless __getattr__ raises, and it never does
hasattr(T, name) ==
    LET g == getattr(T, name)
    IN [tab |-> g.tab, ok |-> ~IsError(g.val)]

(***************************************************************************)
(* Grammar._unfold                                                         *)
(***************************************************************************)
\* faulty variants: a reference followed one derivation late, or still at
\* depth 0
UnfoldRefFollowedLate(n) == n > 1

UnfoldRefFollowedAtZero(n) == n >= 0

\* a reference is followed only while n > 0 ...
UnfoldRefFollowed(n) == n > 0

\* faulty variant: the depth is not counted down
UnfoldRefDepthKept(n) == n

\* ... and the rule it names is unfolded with n - 1
UnfoldRefDepth(n) == n - 1

\* the result of a reference that is not followed
UnfoldRefExhausted(op) == None

\* the first error among the results of the steps, or None
RECURSIVE FirstError(_)
FirstError(rs) ==
    IF rs = <<>> THEN None
    ELSE IF IsError(Head(rs)) THEN Head(rs)
    ELSE FirstError(Tail(rs))

RECURSIVE _unfold(_, _, _)
_unfold(T, op, n) ==
    CASE op.shape = "Pipeline" ->
            LET new_steps == [i \in 1..Len(op.steps) |-> _unfold(T, op.steps[i], n)]
            IN  IF FirstError(new_steps) # None THEN FirstError(new_steps)
                ELSE IF \A i \in 1..Len(new_steps) : new_steps[i] # None
                     THEN get_pipeline_of_applicable_type(new_steps, op.edges)
                     ELSE None
      [] op.shape = "Choice" ->
            LET rs == [i \in 1..Len(op.steps) |-> _unfold(T, op.steps[i], n)]
                steps == NotNone(rs)
            IN  IF FirstError(rs) # None THEN FirstError(rs)
                ELSE IF steps # <<>> THEN make_choice(steps) ELSE None
      [] op.shape = "NonTerminal" ->
            IF UnfoldRefFollowed(n)
            THEN IF op.name \in DOMAIN T
                 THEN _unfold(T, T[op.name], UnfoldRefDepth(n))
                 ELSE KeyError
            ELSE UnfoldRefExhausted(op)
      [] op.shape = "Leaf" -> op

\* Grammar.unfold(n) on the rule table T: the table it leaves and what it
\* returns or raises
unfold(T, n) ==
    LET h == hasattr(T, "start")
        g == getattr(h.tab, "start")
        op == _unfold(g.tab, g.val, n)
    IN  IF ~h.ok THEN [tab |-> h.tab, out |-> AssertionError]
        ELSE [tab |-> g.tab,
              out |-> IF IsError(op) THEN op
                      ELSE IF op # None THEN make_pipeline(op) ELSE NoOp]

(***************************************************************************)
(* Grammar._sample. random.choice makes it a relation: the set of the      *)
(* pairs (table left, value returned) a call can end in. The table is      *)
(* threaded through the steps in order, since following a reference reads  *)
(* the rule with getattr, which stores a NonTerminal for a missing name.   *)
(***************************************************************************)
SampleRefFollowed(n) == n > 0

SampleRefDepth(n) == n - 1

\* faulty variant: the reference that is not followed is returned as it is
SampleRefKept(op) == op

SampleRefExhausted(op) == None

\* random.choice(op.steps()): any one of the steps
RandomChoice(ss) == {ss[i] : i \in 1..Len(ss)}

RECURSIVE _sample(_, _, _)
RECURSIVE SampleSteps(_, _, _)
SampleSteps(T, ss, n) ==
    IF ss = <<>> THEN {[tab |-> T, vals |-> <<>>]}
    ELSE UNION {{[tab |-> q.tab, vals |-> <<r.val>> \o q.vals] :
                    q \in SampleSteps(r.tab, Tail(ss), n)} :
                r \in _sample(T, Head(ss), n)}

_sample(T, op, n) ==
    CASE op.shape = "Pipeline" ->
            {[tab |-> r.tab,
              val |-> IF \A i \in 1..Len(r.vals) : r.vals[i] # None
                      THEN get_pipeline_of_applicable_type(r.vals, op.edges)
                      ELSE None] : r \in SampleSteps(T, op.steps, n)}
      [] op.shape = "Choice" ->
            UNION {_sample(T, s, n) : s \in RandomChoice(op.steps)}
      [] op.shape = "NonTerminal" ->
            IF SampleRefFollowed(n)
            THEN LET g == getattr(T, op.name)
                 IN  _sample(g.tab, g.val, SampleRefDepth(n))
            ELSE {[tab |-> T, val |-> SampleRefExhausted(op)]}
      [] op.shape = "Leaf" -> {[tab |-> T, val |-> op]}

\* Grammar.sample(n) on the rule table T: the outcomes it can end in
sample(T, n) ==
    LET h == hasattr(T, "start")
        g == getattr(h.tab, "start")
    IN  IF ~h.ok THEN {[tab |-> h.tab, out |-> AssertionError]}
        ELSE {[tab |-> r.tab,
               out |-> IF r.val # None THEN make_pipeline(r.val) ELSE NoOp] :
                  r \in _sample(g.tab, g.val, n)}

(***************************************************************************)
(* The grammars explored: three rule names, and the operators a rule is    *)
(* bound to. A rule may be bound to an operator that refers to a name      *)
(* which is not in the table (NonTerminal is a public class, and set_name  *)
(* renames a reference).                                                   *)
(***************************************************************************)
MaxN == 3

RuleNames == {"start", "a", "b"}

A == Leaf("A")
B == Leaf("B")

OpUniverse ==
    { A,
      NonTerminal("a"), NonTerminal("b"), NonTerminal("start"),
      Choice(<<A, B>>),
      Choice(<<NonTerminal("a"), A>>),
      Choice(<<NonTerminal("b"), B>>),
      Seq2(A, B),
      Seq2(NonTerminal("a"), B),
      Seq2(Choice(<<NonTerminal("a"), A>>), B),
      Choice(<<Seq2(A, NonTerminal("a")), B>>) }

EmptyTable == [k \in {} |-> None]

NoCall == [call |-> "none", n |-> 0, before |-> EmptyTable,
           startAssigned |-> FALSE, out |-> None]

\* g.<name> = value
SetAttr(name, value) ==
    /\ _variables' = setattr(_variables, name, value)
    /\ assigned' = assigned \cup {name}
    /\ last' = NoCall
    /\ UNCHANGED <<rvars, mvars, cvars>>

\* a read of g.<name>
GetAttr(name) ==
    /\ _variables' = getattr(_variables, name).tab
    /\ last' = NoCall
    /\ UNCHANGED <<assigned, rvars, mvars, cvars>>

\* g.unfold(n)
Unfold(n) ==
    LET r == unfold(_variables, n)
    IN  /\ _variables' = r.tab
        /\ last' = [call |-> "unfold", n |-> n, before |-> _variables,
                    startAssigned |-> "start" \in assigned, out |-> r.out]
        /\ UNCHANGED <<assigned, rvars, mvars, cvars>>

\* g.sample(n)
Sample(n) ==
    \E r \in sample(_variables, n) :
        /\ _variables' = r.tab
        /\ last' = [call |-> "sample", n |-> n, before |-> _variables,
                    startAssigned |-> "start" \in assigned, out |-> r.out]
        /\ UNCHANGED <<assigned, rvars, mvars, cvars>>

NextGrammar ==
    \/ \E name \in RuleNames, value \in OpUniverse : SetAttr(name, value)
    \/ \E name \in RuleNames : GetAttr(name)
    \/ \E n \in 0..MaxN : Unfold(n)
    \/ \E n \in 0..MaxN : Sample(n)


(***************************************************************************)
(* The recursion of _unfold and _sample, call by call. The stack holds the *)
(* calls still to make, the next one first: a Pipeline calls on each of    *)
(* its steps (all of them, before it looks for a None), a Choice on each   *)
(* (unfold) or on one (sample) of its steps, a followed reference on the   *)
(* rule it names, a Leaf and an exhausted reference on nothing.            *)
(***************************************************************************)
MaxStack == 16

RunUniverse ==
    { A,
      NonTerminal("a"), NonTerminal("b"), NonTerminal("start"),
      Seq2(NonTerminal("a"), NonTerminal("a")),
      Choice(<<Seq2(A, NonTerminal("a")), B>>) }

RunTables == [{"start", "a"} -> RunUniverse]

IdleRun == [kind |-> "none", tab |-> EmptyTable, n |-> 0, state |-> "idle"]

Frame(op, n) == [op |-> op, n |-> n]

Calls(ss, n) == [i \in 1..Len(ss) |-> Frame(ss[i], n)]

\* op = self._unfold(self.start, n) or self._sample(self.start, n)
RunBegin(T, kind, n) ==
    /\ run.state # "running"
    /\ run' = [kind |-> kind, tab |-> T, n |-> n, state |-> "running"]
    /\ stack' = <<Frame(T["start"], n)>>
    /\ UNCHANGED <<gvars, mvars, cvars>>

RunPipeline ==
    /\ run.state = "running" /\ stack # <<>>
    /\ Head(stack).op.shape = "Pipeline"
    /\ Len(stack) + Len(Head(stack).op.steps) <= MaxStack
    /\ stack' = Calls(Head(stack).op.steps, Head(stack).n) \o Tail(stack)
    /\ UNCHANGED <<run, gvars, mvars, cvars>>

RunChoiceUnfold ==
    /\ run.state = "running" /\ stack # <<>>
    /\ run.kind = "unfold"
    /\ Head(stack).op.shape = "Choice"
    /\ Len(stack) + Len(Head(stack).op.steps) <= MaxStack
    /\ stack' = Calls(Head(stack).op.steps, Head(stack).n) \o Tail(stack)
    /\ UNCHANGED <<run, gvars, mvars, cvars>>

RunChoiceSample ==
    /\ run.state = "running" /\ stack # <<>>
    /\ run.kind = "sample"
    /\ Head(stack).op.shape = "Choice"
    /\ \E s \in RandomChoice(Head(stack).op.steps) :
          stack' = <<Frame(s, Head(stack).n)>> \o Tail(stack)
    /\ UNCHANGED <<run, gvars, mvars, cvars>>

RunRefUnfold ==
    /\ run.state = "running" /\ stack # <<>>
    /\ run.kind = "unfold"
    /\ Head(stack).op.shape = "NonTerminal"
    /\ IF ~UnfoldRefFollowed(Head(stack).n)
       THEN stack' = Tail(stack) /\ UNCHANGED run
       ELSE IF Head(stack).op.name \in DOMAIN run.tab
       THEN /\ stack' = <<Frame(run.tab[Head(stack).op.name],
                                UnfoldRefDepth(Head(stack).n))>> \o Tail(stack)
            /\ UNCHANGED run
       ELSE /\ stack' = <<>>
            /\ run' = [run EXCEPT !.state = "raised"]
    /\ UNCHANGED <<gvars, mvars, cvars>>

RunRefSample ==
    /\ run.state = "running" /\ stack # <<>>
    /\ run.kind = "sample"
    /\ Head(stack).op.shape = "NonTerminal"
    /\ IF ~SampleRefFollowed(Head(stack).n)
       THEN stack' = Tail(stack) /\ UNCHANGED run
       ELSE LET g == getattr(run.tab, Head(stack).op.name)
            IN  /\ stack' = <<Frame(g.val, SampleRefDepth(Head(stack).n))>>
                                \o Tail(stack)
                /\ run' = [run EXCEPT !.tab = g.tab]
    /\ UNCHANGED <<gvars, mvars, cvars>>

RunLeaf ==
    /\ run.state = "running" /\ stack # <<>>
    /\ Head(stack).op.shape = "Leaf"
    /\ stack' = Tail(stack)
    /\ UNCHANGED <<run, gvars, mvars, cvars>>

RunReturn ==
    /\ run.state = "running" /\ stack = <<>>
    /\ run' = [run EXCEPT !.state = "returned"]
    /\ UNCHANGED <<stack, gvars, mvars, cvars>>

\* the next step of the running call
RunStep ==
    \/ RunPipeline
    \/ RunChoiceUnfold
    \/ RunChoiceSample
    \/ RunRefUnfold
    \/ RunRefSample
    \/ RunLeaf
    \/ RunReturn

NextRun ==
    \/ \E T \in RunTables, kind \in {"unfold", "sample"}, n \in 0..MaxN :
          RunBegin(T, kind, n)
    \/ RunStep

(***************************************************************************)
(* Numbers. A label is held as a count of halves (3 is 1.5), a square of   *)
(* labels as a count of quarters, so that labels with a fractional part    *)
(* and their exact sums stay integers. A count is held in two limbs,       *)
(* hi * Base + lo, to reach past the 53 bits of a float64 mantissa: an     *)
(* int64 operation is exact, a float64 operation rounds its exact result   *)
(* to 53 significant bits, ties to even.                                   *)
(***************************************************************************)
Base == 2^29

Mantissa == 53

Num(k) == [hi |-> 0, lo |-> k]

Zero == Num(0)

AddExact(x, y) ==
    [hi |-> x.hi + y.hi + ((x.lo + y.lo) \div Base), lo |-> (x.lo + y.lo) % Base]

\* x * 2^s for a one-limb x
Shift(x, s) ==
    [hi |-> x \div 2^(29 - s), lo |-> (x % 2^(29 - s)) * 2^s]

\* a * b for a, b < 2^28, from the products of their 14-bit halves
MulExact(a, b) ==
    LET a1 == a \div 2^14
        a0 == a % 2^14
        b1 == b \div 2^14
        b0 == b % 2^14
    IN  AddExact(AddExact(Shift(a1 * b1, 28), Shift(a1 * b0 + a0 * b1, 14)),
                 Num(a0 * b0))

\* the number of bits of a one-limb k
BitLen(k) == Cardinality({n \in 0..28 : 2^n <= k})

\* the number of bits of the count x
BitsOf(x) == IF x.hi = 0 THEN BitLen(x.lo) ELSE BitLen(x.hi) + BitLen(Base - 1)

\* the float64 nearest to the count x
Round53(x) ==
    LET drop == BitsOf(x) - Mantissa
    IN  IF drop <= 0 THEN x
        ELSE LET q == 2^drop
                 r == x.lo % q
                 down == x.lo - r
                 up == 2 * r > q \/ (2 * r = q /\ (down \div q) % 2 = 1)
                 lo2 == IF up THEN down + q ELSE down
             IN  [hi |-> x.hi + (lo2 \div Base), lo |-> lo2 % Base]

\* x + y: in float64 both numbers are made float64 first, an int64 among
\* them being rounded, and their sum is rounded
Add(dtype, x, y) ==
    IF dtype = "float" THEN Round53(AddExact(Round53(x), Round53(y)))
    ELSE AddExact(x, y)

Mul(dtype, a, b) ==
    IF dtype = "float" THEN Round53(MulExact(a, b)) ELSE MulExact(a, b)

Abs(k) == IF k < 0 THEN -k ELSE k

\* the dtype of an operation on columns of dtypes d1 and d2
Common(d1, d2) == IF d1 = "float" \/ d2 = "float" THEN "float" ELSE "int"

(***************************************************************************)
(* The aggregation pipelines. A batch is a list of rows <<y_true, y_pred>>;*)
(* form gives the dtypes of the two columns and whether y_pred is passed   *)
(* as a labelled Series or as a raw ndarray.                               *)
(***************************************************************************)
\* sum(it.c): the column is added up from its first row on
RECURSIVE SumFrom(_, _, _)
SumFrom(dtype, acc, col) ==
    IF col = <<>> THEN acc
    ELSE SumFrom(dtype, Add(dtype, acc, Head(col)), Tail(col))

Sum(dtype, col) == SumFrom(dtype, Zero, col)

\* count(it.c)
Count(col) == Len(col)

\* pd.Series(y_pred, y_true.index, y_true.dtype, "y_pred"): the array is
\* cast to the dtype of y_true; pandas refuses to cast a float with a
\* fractional part to an integer
CastToTrueDtype(f, rows) ==
    IF f.dt_true = "int" /\ f.dt_pred = "float"
       /\ \E i \in 1..Len(rows) : rows[i][2] % 2 # 0
    THEN ValueError
    ELSE [dt_pred |-> f.dt_true, rows |-> rows]

\* lines 96-100 and 168-172: y_pred as the pipeline gets it
AsSeries(f, rows) ==
    IF f.pred = "ndarray" THEN CastToTrueDtype(f, rows)
    ELSE [dt_pred |-> f.dt_pred, rows |-> rows]

\* agg_df.iloc[0]: a row with a float column is a row of floats
RowValue(isFloat, x) == IF isFloat THEN Round53(x) ELSE x

_AccuracyData(match, total) ==
    [cls |-> "_AccuracyData", match |-> match, total |-> total]

AccuracyCombineMatch(x, y) == x.match + y.match

AccuracyCombineTotal(x, y) == x.total + y.total

AccuracyCombine(x, y) ==
    _AccuracyData(AccuracyCombineMatch(x, y), AccuracyCombineTotal(x, y))

RECURSIVE GCD(_, _)
GCD(a, b) == IF b = 0 THEN a ELSE GCD(b, a % b)

\* match / np.float64(total): the float64 nearest to the quotient, held as
\* the quotient in lowest terms (nan when total is 0)
AccuracyResult(x) ==
    IF x.total = 0 THEN [num |-> 0, den |-> 0]
    ELSE [num |-> x.match \div GCD(x.match, x.total),
          den |-> x.total \div GCD(x.match, x.total)]

\* astype("int", it.y_true == it.y_pred)
MatchColumn(rows) ==
    [i \in 1..Len(rows) |-> IF rows[i][1] = rows[i][2] THEN 1 ELSE 0]

RECURSIVE IntSum(_)
IntSum(col) == IF col = <<>> THEN 0 ELSE Head(col) + IntSum(Tail(col))

AccuracyToMonoid(f, rows) ==
    LET p == AsSeries(f, rows)
    IN  IF IsError(p) THEN p
        ELSE _AccuracyData(IntSum(MatchColumn(p.rows)), Count(MatchColumn(p.rows)))

_R2Data(n, sum, sum_sq, res_sum_sq, isFloat) ==
    [cls |-> "_R2Data", n |-> n, sum |-> sum, sum_sq |-> sum_sq,
     res_sum_sq |-> res_sum_sq, isFloat |-> isFloat]

R2CombineSum(x, y) ==
    Add(IF x.isFloat \/ y.isFloat THEN "float" ELSE "int", x.sum, y.sum)

\* faulty variant: the sum of the other accumulator added to the sum of squares
R2CombineSumSqOfSum(x, y) ==
    Add(IF x.isFloat \/ y.isFloat THEN "float" ELSE "int", x.sum_sq, y.sum)

R2CombineSumSq(x, y) ==
    Add(IF x.isFloat \/ y.isFloat THEN "float" ELSE "int", x.sum_sq, y.sum_sq)

R2CombineResSumSq(x, y) ==
    Add(IF x.isFloat \/ y.isFloat THEN "float" ELSE "int",
        x.res_sum_sq, y.res_sum_sq)

R2Combine(x, y) ==
    _R2Data(x.n + y.n, R2CombineSum(x, y), R2CombineSumSq(x, y),
            R2CombineResSumSq(x, y), x.isFloat \/ y.isFloat)

R2ToMonoid(f, rows) ==
    LET p == AsSeries(f, rows)
    IN  IF IsError(p) THEN p
        ELSE LET de == Common(f.dt_true, p.dt_pred)
                 y == [i \in 1..Len(rows) |-> Num(p.rows[i][1])]
                 y2 == [i \in 1..Len(rows) |->
                          Mul(f.dt_true, p.rows[i][1], p.rows[i][1])]
                 e2 == [i \in 1..Len(rows) |->
                          Mul(de, Abs(p.rows[i][1] - p.rows[i][2]),
                                  Abs(p.rows[i][1] - p.rows[i][2]))]
                 isFloat == de = "float"
             IN  _R2Data(Count(y),
                         RowValue(isFloat, Sum(f.dt_true, y)),
                         RowValue(isFloat, Sum(f.dt_true, y2)),
                         RowValue(isFloat, Sum(de, e2)),
                         isFloat)

to_monoid(f, rows) ==
    IF f.metric = "accuracy" THEN AccuracyToMonoid(f, rows) ELSE R2ToMonoid(f, rows)

combine(x, y) ==
    IF x.cls = "_AccuracyData" THEN AccuracyCombine(x, y) ELSE R2Combine(x, y)

\* the accumulator's fields, without the type of the numbers that hold them
Fields(x) ==
    IF x.cls = "_AccuracyData" THEN <<x.match, x.total>>
    ELSE <<x.n, x.sum, x.sum_sq, x.res_sum_sq>>

(***************************************************************************)
(* The scorers. A caller makes a list of batches and either hands it to    *)
(* score_data_batched, which reduces it from the left, lifting each batch  *)
(* when reduce takes it, or lifts the batches with to_monoid and combines  *)
(* the accumulators two at a time, any two of them in either order.        *)
(***************************************************************************)
MaxRows == 3

Big == 3 * 2^26

\* <<1.0, 1.0>>, <<1.0, 1.5>>, <<2.0, 2.0>> and <<100663296.0, 0.0>>, in halves
LabelPairs == {<<2, 2>>, <<2, 3>>, <<4, 4>>, <<Big, 0>>}

Forms == [metric : {"accuracy", "r2"}, dt_true : {"int", "float"},
          dt_pred : {"int", "float"}, pred : {"Series", "ndarray"}]

NoForm == [metric |-> "none", dt_true |-> "int", dt_pred |-> "int",
           pred |-> "Series"]

\* an int column holds no fractional part
RowFits(f, row) ==
    /\ f.dt_true = "int" => row[1] % 2 = 0
    /\ f.dt_pred = "int" => row[2] % 2 = 0

RECURSIVE Concat(_)
Concat(bs) == IF bs = <<>> THEN <<>> ELSE Head(bs) \o Concat(Tail(bs))

Without(s, i, j) ==
    LET keep == {k \in 1..Len(s) : k # i /\ k # j}
        RECURSIVE Pick(_)
        Pick(k) == IF k > Len(s) THEN <<>>
                   ELSE IF k \in keep THEN <<s[k]>> \o Pick(k + 1)
                   ELSE Pick(k + 1)
    IN  Pick(1)

\* a scorer and an iterable of batches, empty at first
MetricBegin(f) ==
    /\ mstate \in {"idle", "done", "raised"}
    /\ form' = f
    /\ batches' = <<>>
    /\ pool' = <<>>
    /\ pulled' = 0
    /\ mstate' = "building"
    /\ UNCHANGED <<gvars, rvars, cvars>>

\* one more row in the last batch
AddRow(row) ==
    /\ mstate = "building"
    /\ Len(batches) > 0
    /\ Len(Concat(batches)) < MaxRows
    /\ RowFits(form, row)
    /\ batches' = [batches EXCEPT ![Len(batches)] = Append(@, row)]
    /\ UNCHANGED <<form, pool, pulled, mstate, gvars, rvars, cvars>>

\* one more batch
AddBatch(row) ==
    /\ mstate = "building"
    /\ Len(Concat(batches)) < MaxRows
    /\ RowFits(form, row)
    /\ batches' = Append(batches, <<row>>)
    /\ UNCHANGED <<form, pool, pulled, mstate, gvars, rvars, cvars>>

\* score_data_batched(batches): the generator of line 58 lifts nothing yet
ScoreDataBatched ==
    /\ mstate = "building"
    /\ mstate' = "scoring"
    /\ UNCHANGED <<form, batches, pool, pulled, gvars, rvars, cvars>>

\* reduce takes the next batch from the generator, which lifts it: the first
\* is the accumulator pool[1], a later one the y = pool[2] of the lambda
ScoreNext ==
    /\ mstate = "scoring"
    /\ Len(pool) <= 1
    /\ pulled < Len(batches)
    /\ pulled' = pulled + 1
    /\ pool' = Append(pool, to_monoid(form, batches[pulled + 1]))
    /\ mstate' = IF IsError(to_monoid(form, batches[pulled + 1]))
                 THEN "raised" ELSE "scoring"
    /\ UNCHANGED <<form, batches, gvars, rvars, cvars>>

\* lambda x, y: x.combine(y)
ScoreCombine ==
    /\ mstate = "scoring"
    /\ Len(pool) = 2
    /\ pool' = <<combine(pool[1], pool[2])>>
    /\ UNCHANGED <<form, batches, pulled, mstate, gvars, rvars, cvars>>

\* the generator is exhausted: .result of the accumulator; reduce of an
\* empty iterable raises TypeError
ScoreResult ==
    /\ mstate = "scoring"
    /\ pulled = Len(batches)
    /\ Len(pool) <= 1
    /\ pool' = IF pool = <<>> THEN <<TypeError>> ELSE pool
    /\ mstate' = IF pool = <<>> THEN "raised" ELSE "done"
    /\ UNCHANGED <<form, batches, pulled, gvars, rvars, cvars>>

\* a caller's own to_monoid(b) on the next batch
ToMonoid ==
    /\ mstate \in {"building", "lifting"}
    /\ pulled < Len(batches)
    /\ pulled' = pulled + 1
    /\ pool' = Append(pool, to_monoid(form, batches[pulled + 1]))
    /\ mstate' = IF IsError(to_monoid(form, batches[pulled + 1]))
                 THEN "raised" ELSE "lifting"
    /\ UNCHANGED <<form, batches, gvars, rvars, cvars>>

\* a caller's own x.combine(y) on two of the accumulators
Combine(i, j) ==
    /\ mstate = "lifting"
    /\ i \in 1..Len(pool) /\ j \in 1..Len(pool) /\ i # j
    /\ pool' = Append(Without(pool, i, j), combine(pool[i], pool[j]))
    /\ UNCHANGED <<form, batches, pulled, mstate, gvars, rvars, cvars>>

NextMetric ==
    \/ \E f \in Forms : MetricBegin(f)
    \/ \E row \in LabelPairs : AddRow(row)
    \/ \E row \in LabelPairs : AddBatch(row)
    \/ ScoreDataBatched
    \/ ScoreNext
    \/ ScoreCombine
    \/ ScoreResult
    \/ ToMonoid
    \/ \E i, j \in 1..MaxRows : Combine(i, j)

(***************************************************************************)
(* The scorer cache. A scorer is an object: the k-th one constructed is    *)
(* told from the others by k.                                              *)
(***************************************************************************)
MaxCalls == 5

ScorerCalls == {"accuracy", "r2", "unknown"}

EmptyCache == [k \in {"accuracy", "r2"} |-> None]

_Accuracy(k) == [cls |-> "_Accuracy", id |-> k]

_R2(k) == [cls |-> "_R2", id |-> k]

\* faulty variant: the cache is not looked at
NeedsScorerAlways(cache, scoring) == TRUE

\* if _scorer_cache[scoring] is None
NeedsScorer(cache, scoring) == cache[scoring] = None

\* get_scorer(scoring) on the cache, k scorers having been constructed: the
\* cache it leaves and what it returns or raises
get_scorer(cache, scoring, k) ==
    IF scoring \notin DOMAIN cache
    THEN [cache |-> cache, ret |-> AssertionError, new |-> 0]
    ELSE IF NeedsScorer(cache, scoring)
    THEN LET c == IF scoring = "accuracy"
                  THEN [cache EXCEPT ![scoring] = _Accuracy(k + 1)]
                  ELSE IF scoring = "r2"
                  THEN [cache EXCEPT ![scoring] = _R2(k + 1)]
                  ELSE cache
         IN  [cache |-> c, ret |-> c[scoring], new |-> 1]
    ELSE [cache |-> cache, ret |-> cache[scoring], new |-> 0]

GetScorer(scoring) ==
    LET r == get_scorer(_scorer_cache, scoring, made["accuracy"] + made["r2"])
    IN  /\ Len(log) < MaxCalls
        /\ _scorer_cache' = r.cache
        /\ made' = IF r.new = 1 THEN [made EXCEPT ![scoring] = @ + 1] ELSE made
        /\ log' = Append(log, [scoring |-> scoring, ret |-> r.ret,
                               before |-> _scorer_cache, after |-> r.cache])
        /\ UNCHANGED <<gvars, rvars, mvars>>

NextCache == \E scoring \in ScorerCalls : GetScorer(scoring)

Init ==
    /\ _variables = EmptyTable
    /\ assigned = {}
    /\ last = NoCall
    /\ stack = <<>>
    /\ run = IdleRun
    /\ batches = <<>>
    /\ form = NoForm
    /\ pool = <<>>
    /\ pulled = 0
    /\ mstate = "idle"
    /\ _scorer_cache = EmptyCache
    /\ made = [k \in {"accuracy", "r2"} |-> 0]
    /\ log = <<>>

SpecGrammar == Init /\ [][NextGrammar]_vars

SpecMetric == Init /\ [][NextMetric]_vars

SpecCache == Init /\ [][NextCache]_vars

\* a call runs to its end without being suspended
SpecRun == Init /\ [][NextRun]_vars /\ WF_vars(RunStep)

(***************************************************************************)
(* Properties of the grammar engine.                                       *)
(***************************************************************************)
Called == last.call \in {"unfold", "sample"}

\* the operator has only Leaf steps, however deeply its pipelines nest
RECURSIVE OnlyLeaves(_)
OnlyLeaves(op) ==
    CASE op.shape = "Leaf" -> TRUE
      [] op.shape = "Pipeline" ->
            \A i \in 1..Len(op.steps) : OnlyLeaves(op.steps[i])
      [] OTHER -> FALSE

\* the pipelines got from op by resolving each Choice to one alternative
RECURSIVE Resolutions(_)
RECURSIVE StepResolutions(_)
StepResolutions(ss) ==
    IF ss = <<>> THEN {<<>>}
    ELSE {<<h>> \o t : h \in Resolutions(Head(ss)), t \in StepResolutions(Tail(ss))}

Resolutions(op) ==
    CASE op.shape = "Leaf" -> {op}
      [] op.shape = "Choice" ->
            UNION {Resolutions(op.steps[i]) : i \in 1..Len(op.steps)}
      [] op.shape = "Pipeline" ->
            {Pipeline(ss, op.edges) : ss \in StepResolutions(op.steps)}
      [] OTHER -> {}

SetMax(S) == CHOOSE x \in S : \A y \in S : y <= x

\* the most Reference hops on a path from op to a Leaf, or -1 when a path
\* reaches a missing rule or does not end within fuel hops
RECURSIVE RefHops(_, _, _)
RefHops(T, op, fuel) ==
    CASE op.shape = "Leaf" -> 0
      [] op.shape = "NonTerminal" ->
            IF fuel = 0 \/ op.name \notin DOMAIN T THEN -1
            ELSE LET d == RefHops(T, T[op.name], fuel - 1)
                 IN  IF d < 0 THEN -1 ELSE d + 1
      [] OTHER ->
            LET ds == {RefHops(T, op.steps[i], fuel) : i \in 1..Len(op.steps)}
            IN  IF \E d \in ds : d < 0 THEN -1 ELSE SetMax(ds)

\* the natural depth of an acyclic grammar, -1 for any other grammar: a
\* path of more hops than there are rules goes through a rule twice
NaturalDepth(T) ==
    IF "start" \notin DOMAIN T THEN -1
    ELSE RefHops(T, T["start"], Cardinality(RuleNames))

\* C1 (as claimed): unfold(n) and sample(n) fail whenever 'start' was never
\* bound by attribute assignment.
C1_StartRequired ==
    (Called /\ ~last.startAssigned) => IsError(last.out)

\* C9 (as claimed): unfold(n) and sample(n) leave the rule table as it was
\* before the call.
C9_ReadOnly ==
    Called => _variables = last.before

\* C10 (as claimed): whatever sample(n) returns is the no-op operator or a
\* resolution of the Choices of what unfold(n) returns on the same grammar.
C10_SampleWithinUnfold ==
    last.call = "sample" =>
        last.out \in {NoOp} \cup Resolutions(unfold(last.before, last.n).out)

\* C3: with 'start' bound, the operator sample(n) returns has only Leaf
\* steps: no Reference and no Choice, at any nesting of its pipelines.
C3_SampleOnlyLeaves ==
    (last.call = "sample" /\ "start" \in DOMAIN last.before) =>
        OnlyLeaves(last.out)

C3_Witness ==
    /\ last.call = "sample"
    /\ "start" \in DOMAIN last.before
    /\ last.before["start"] = Seq2(Choice(<<NonTerminal("a"), A>>), B)
    /\ "a" \in DOMAIN last.before
    /\ last.before["a"] = Choice(<<Seq2(A, NonTerminal("a")), B>>)
    /\ last.out = make_pipeline(Seq2(Seq2(A, B), B))

\* C4: on an acyclic grammar of natural depth d, unfold(n) returns for every
\* n >= d what unfold(d) returns, so unfold(n) = unfold(n + k).
C4_UnfoldStabilizes ==
    (/\ last.call = "unfold"
     /\ NaturalDepth(last.before) >= 0
     /\ last.n >= NaturalDepth(last.before)) =>
        last.out = unfold(last.before, NaturalDepth(last.before)).out

C4_Witness ==
    /\ last.call = "unfold"
    /\ NaturalDepth(last.before) = 2
    /\ last.n = 3
    /\ last.out # NoOp
    /\ unfold(last.before, 1).out = NoOp

\* C8 (as claimed): with 'start' bound, unfold(0) and sample(0) return the
\* no-op operator whatever shape 'start' is bound to.
C8_DepthZeroAlwaysNoOp ==
    (Called /\ last.n = 0 /\ "start" \in DOMAIN last.before) => last.out = NoOp

\* C8 (amended): unfold(0) and sample(0) return the no-op operator when
\* 'start' is bound to a Reference, and the Leaf itself, as a pipeline of
\* one step, when 'start' is bound to a Leaf.
C8_DepthZeroReference ==
    (Called /\ last.n = 0 /\ "start" \in DOMAIN last.before) =>
        /\ last.before["start"].shape = "NonTerminal" => last.out = NoOp
        /\ last.before["start"].shape = "Leaf" =>
              last.out = make_pipeline(last.before["start"])

C8_Witness ==
    /\ last.call = "unfold"
    /\ last.n = 0
    /\ "start" \in DOMAIN last.before
    /\ last.before["start"] = NonTerminal("a")
    /\ "a" \in DOMAIN last.before
    /\ last.before["a"] = A
    /\ last.out = NoOp

\* C5: every call of unfold(n) and sample(n) ends, on cyclic grammars too;
\* a call made through a Reference has the depth of its caller less one,
\* and no depth is negative.
C5_Terminates ==
    /\ (run.state = "running") ~> (run.state # "running")
    /\ [](\A i \in 1..Len(stack) : stack[i].n >= 0 /\ stack[i].n <= run.n)
    /\ [][(run.state = "running" /\ stack # <<>>
             /\ Head(stack).op.shape = "NonTerminal"
             /\ Len(stack') = Len(stack))
           => (Head(stack).n > 0 /\ Head(stack').n = Head(stack).n - 1)]_vars

C5_Witness ==
    /\ run.state = "returned"
    /\ run.kind = "unfold"
    /\ run.n = MaxN
    /\ run.tab["start"] = NonTerminal("a")
    /\ run.tab["a"] = Choice(<<Seq2(A, NonTerminal("a")), B>>)

(***************************************************************************)
(* Properties of the scorers.                                              *)
(***************************************************************************)
Whole == to_monoid(form, Concat(batches))

\* the count x is a float64: rounding leaves it as it is
Representable(x) == Round53(x) = x

\* the exact sum of the terms of col whose places are in S
SumOver(col, S) ==
    Sum("int", [i \in 1..Len(col) |-> IF i \in S THEN col[i] ELSE Zero])

\* no addition of the scoring can round: every sum of some of the rows'
\* y_true, of some of their squares and of some of their squared residuals,
\* added up exactly, is a float64
EverySumExact(rows) ==
    LET y == [i \in 1..Len(rows) |-> Num(rows[i][1])]
        sq == [i \in 1..Len(rows) |-> MulExact(rows[i][1], rows[i][1])]
        e2 == [i \in 1..Len(rows) |->
                 MulExact(Abs(rows[i][1] - rows[i][2]), Abs(rows[i][1] - rows[i][2]))]
    IN  \A S \in SUBSET (1..Len(rows)) :
            /\ Representable(SumOver(y, S))
            /\ Representable(SumOver(sq, S))
            /\ Representable(SumOver(e2, S))

\* all the batches are lifted and combined into one accumulator, by
\* score_data_batched or by a caller's calls of combine in an order of its own
Folded ==
    /\ mstate \in {"lifting", "done"}
    /\ pulled = Len(batches)
    /\ Len(pool) = 1

\* C2 (as claimed): the accumulators of the batches, combined in any order
\* and grouping, have the fields of to_monoid of the batches' concatenation,
\* and so score_data_batched gives the score of score_data.
C2_FoldEqualsWhole ==
    Folded =>
        /\ Fields(pool[1]) = Fields(Whole)
        /\ form.metric = "accuracy" => AccuracyResult(pool[1]) = AccuracyResult(Whole)

\* C2 (amended): so it is for the accuracy accumulator, and for the R2
\* accumulator when its fields are integers or when no addition can round,
\* every sum of some of the y_true, of some of their squares and of some of
\* the squared residuals being exactly a float64; the float64 sums of other
\* data depend on the grouping, by their rounding.
C2_FoldEqualsWholeExact ==
    (/\ Folded
     /\ \/ form.metric = "accuracy"
        \/ ~Whole.isFloat
        \/ EverySumExact(Concat(batches))) =>
        /\ Fields(pool[1]) = Fields(Whole)
        /\ form.metric = "accuracy" => AccuracyResult(pool[1]) = AccuracyResult(Whole)

C2_Witness ==
    /\ mstate = "lifting"
    /\ pulled = 3
    /\ form.metric = "r2" /\ form.dt_true = "float" /\ form.dt_pred = "float"
    /\ batches = << <<<<Big, 0>>>>, <<<<4, 4>>>>, <<<<Big, 0>>>> >>
    /\ EverySumExact(Concat(batches))
    /\ Len(pool) = 1
    /\ Fields(pool[1]) = Fields(Whole)

\* C7 (as claimed): to_monoid takes y_pred as a raw array and gives the
\* accumulator it gives for the labelled series of the same values,
\* whatever the element types.
C7_ArrayAsSeries ==
    (/\ form.pred = "ndarray"
     /\ mstate \in {"lifting", "scoring", "raised"}
     /\ pulled >= 1
     /\ Len(pool) = pulled) =>
        \A i \in 1..Len(pool) :
            /\ ~IsError(pool[i])
            /\ Fields(pool[i]) =
                   Fields(to_monoid([form EXCEPT !.pred = "Series"], batches[i]))

\* C6: a call of get_scorer with "accuracy" or "r2" returns what the first
\* call with that name returned, each scorer is constructed at most once,
\* and a call with another name fails and leaves the cache as it was, its
\* keys being "accuracy" and "r2".
C6_ScorerCached ==
    /\ DOMAIN _scorer_cache = {"accuracy", "r2"}
    /\ \A k \in DOMAIN made : made[k] <= 1
    /\ \A i \in 1..Len(log) :
          IF log[i].scoring \in {"accuracy", "r2"}
          THEN /\ ~IsError(log[i].ret)
               /\ log[i].ret # None
               /\ \A j \in 1..i : log[j].scoring = log[i].scoring =>
                                      log[j].ret = log[i].ret
          ELSE /\ log[i].ret = AssertionError
               /\ log[i].after = log[i].before
               /\ DOMAIN log[i].after = {"accuracy", "r2"}

C6_Witness ==
    /\ Len(log) >= 4
    /\ log[1].scoring = "accuracy"
    /\ log[2].scoring = "unknown"
    /\ log[3].scoring = "r2"
    /\ log[4].scoring = "accuracy"
    /\ log[4].ret = log[1].ret
    /\ log[2].ret = AssertionError

====
